---- MODULE Spec2Model ----
\* Model of the Gmail mechanic-invoice scanner (scanner.py, config.py,
\* run_scheduled.py): the classifier, the archiver, the dedup ledger and the
\* scan pass, with the file system and the Gmail service as environment.
\*
\* Text is a sequence of one-character strings, so that substring containment,
\* lower-casing, sanitising and whitespace collapsing are computed as the
\* code computes them.  Confidence values are kept in hundredths.
EXTENDS Integers, Sequences, FiniteSets, TLC

\* ------------------------------------------------------------------------
\* Text primitives (Python str operations used by the code)
\* ------------------------------------------------------------------------

\* str.lower() on one character
LowerChar(c) ==
  CASE c = "A" -> "a" [] c = "B" -> "b" [] c = "C" -> "c" [] c = "D" -> "d"
    [] c = "E" -> "e" [] c = "F" -> "f" [] c = "G" -> "g" [] c = "H" -> "h"
    [] c = "I" -> "i" [] c = "J" -> "j" [] c = "K" -> "k" [] c = "L" -> "l"
    [] c = "M" -> "m" [] c = "N" -> "n" [] c = "O" -> "o" [] c = "P" -> "p"
    [] c = "Q" -> "q" [] c = "R" -> "r" [] c = "S" -> "s" [] c = "T" -> "t"
    [] c = "U" -> "u" [] c = "V" -> "v" [] c = "W" -> "w" [] c = "X" -> "x"
    [] c = "Y" -> "y" [] c = "Z" -> "z" [] OTHER -> c

\* str.lower()
Lower(text) == SubSeq([k \in 1..Len(text) |-> LowerChar(text[k])], 1, Len(text))

\* needle in hay
Contains(hay, needle) ==
  \E k \in 0..(Len(hay) - Len(needle)) :
     \A n \in 1..Len(needle) : hay[k + n] = needle[n]

\* str.endswith(suffix)
EndsWith(text, suffix) ==
  /\ Len(text) >= Len(suffix)
  /\ \A n \in 1..Len(suffix) : text[Len(text) - Len(suffix) + n] = suffix[n]

\* str.startswith(prefix)
StartsWith(text, prefix) ==
  /\ Len(text) >= Len(prefix)
  /\ \A n \in 1..Len(prefix) : text[n] = prefix[n]

\* ' '.join(names)
JoinSpace(names) ==
  LET joined[n \in 0..Len(names)] ==
        IF n = 0 THEN << >>
        ELSE IF n = 1 THEN names[1]
        ELSE joined[n - 1] \o <<" ">> \o names[n]
  IN  joined[Len(names)]

\* [t.lower() for t in terms]
LowerAll(terms) == [k \in 1..Len(terms) |-> Lower(terms[k])]

\* text[-n:]
LastN(text, n) == SubSeq(text, Len(text) - n + 1, Len(text))

\* ------------------------------------------------------------------------
\* config.py
\* ------------------------------------------------------------------------

UNIT_NUMBER == <<"5","7","4">>

FULL_VIN == <<"3","A","K","J","H","H","D","R","7","K","S","K","E","1","5","9","8">>

VIN_LAST_8 == LastN(FULL_VIN, 8)

VIN_LAST_6 == LastN(FULL_VIN, 6)

VIN_LAST_4 == LastN(FULL_VIN, 4)

\* config.SEARCH_TERMS, in list order
SEARCH_TERMS ==
  << FULL_VIN, VIN_LAST_8, VIN_LAST_6, VIN_LAST_4, UNIT_NUMBER,
     <<"U","n","i","t"," ">> \o UNIT_NUMBER,
     <<"U","n","i","t","#">> \o UNIT_NUMBER,
     <<"U","n","i","t","-">> \o UNIT_NUMBER,
     <<"T","r","u","c","k"," ">> \o UNIT_NUMBER,
     <<"T","r","u","c","k","#">> \o UNIT_NUMBER,
     <<"U","n","i","t",":"," ">> \o UNIT_NUMBER >>

\* config.MECHANIC_KEYWORDS, in list order
MECHANIC_KEYWORDS ==
  << <<"i","n","v","o","i","c","e">>,
     <<"r","e","p","a","i","r">>,
     <<"m","e","c","h","a","n","i","c">>,
     <<"s","e","r","v","i","c","e">>,
     <<"m","a","i","n","t","e","n","a","n","c","e">>,
     <<"p","r","e","v","e","n","t","i","v","e"," ","m","a","i","n","t","e","n","a","n","c","e">>,
     <<"p","m"," ","s","e","r","v","i","c","e">>,
     <<"t","o","w">>,
     <<"t","o","w","i","n","g">>,
     <<"r","o","a","d","s","i","d","e">>,
     <<"b","r","e","a","k","d","o","w","n">>,
     <<"r","e","c","o","v","e","r","y">>,
     <<"o","i","l"," ","c","h","a","n","g","e">>,
     <<"l","u","b","e">>,
     <<"l","u","b","r","i","c","a","n","t">>,
     <<"f","l","u","i","d">>,
     <<"c","o","o","l","a","n","t">>,
     <<"a","n","t","i","f","r","e","e","z","e">>,
     <<"d","e","f">>,
     <<"d","i","e","s","e","l"," ","e","x","h","a","u","s","t"," ","f","l","u","i","d">>,
     <<"p","a","r","t","s">>,
     <<"b","r","a","k","e">>,
     <<"t","i","r","e">>,
     <<"b","a","t","t","e","r","y">>,
     <<"f","i","l","t","e","r">>,
     <<"b","e","l","t">>,
     <<"h","o","s","e">>,
     <<"a","l","t","e","r","n","a","t","o","r">>,
     <<"s","t","a","r","t","e","r">>,
     <<"t","r","a","n","s","m","i","s","s","i","o","n">>,
     <<"e","n","g","i","n","e">>,
     <<"e","x","h","a","u","s","t">>,
     <<"d","p","f">>,
     <<"e","g","r">>,
     <<"t","u","r","b","o">>,
     <<"s","u","s","p","e","n","s","i","o","n">>,
     <<"s","t","e","e","r","i","n","g">>,
     <<"a","x","l","e">>,
     <<"w","h","e","e","l">>,
     <<"b","e","a","r","i","n","g">>,
     <<"l","a","b","o","r">>,
     <<"l","a","b","o","u","r">>,
     <<"d","i","a","g","n","o","s","t","i","c">>,
     <<"i","n","s","p","e","c","t","i","o","n">>,
     <<"d","o","t"," ","i","n","s","p","e","c","t","i","o","n">>,
     <<"a","n","n","u","a","l"," ","i","n","s","p","e","c","t","i","o","n">>,
     <<"t","r","u","c","k"," ","s","h","o","p">>,
     <<"t","r","u","c","k"," ","r","e","p","a","i","r">>,
     <<"d","i","e","s","e","l"," ","r","e","p","a","i","r">>,
     <<"f","r","e","i","g","h","t","l","i","n","e","r">>,
     <<"p","e","t","e","r","b","i","l","t">>,
     <<"k","e","n","w","o","r","t","h">>,
     <<"v","o","l","v","o">>,
     <<"i","n","t","e","r","n","a","t","i","o","n","a","l">>,
     <<"m","a","c","k">>,
     <<"t","a"," ","p","e","t","r","o">>,
     <<"l","o","v","e","s">>,
     <<"p","i","l","o","t">>,
     <<"s","p","e","e","d","c","o">>,
     <<"r","u","s","h"," ","t","r","u","c","k">> >>

\* config.EXCLUDE_KEYWORDS, in list order
EXCLUDE_KEYWORDS ==
  << <<"r","a","t","e"," ","c","o","n","f","i","r","m","a","t","i","o","n">>,
     <<"r","a","t","e"," ","c","o","n">>,
     <<"r","a","t","e","c","o","n">>,
     <<"r","a","t","e"," ","s","h","e","e","t">>,
     <<"l","o","a","d"," ","c","o","n","f","i","r","m","a","t","i","o","n">>,
     <<"l","o","a","d"," ","t","e","n","d","e","r">>,
     <<"d","i","s","p","a","t","c","h">>,
     <<"b","r","o","k","e","r">>,
     <<"f","r","e","i","g","h","t">>,
     <<"s","h","i","p","m","e","n","t">>,
     <<"p","i","c","k","u","p">>,
     <<"d","e","l","i","v","e","r","y">>,
     <<"b","o","l">>,
     <<"b","i","l","l"," ","o","f"," ","l","a","d","i","n","g">>,
     <<"p","o","d">>,
     <<"p","r","o","o","f"," ","o","f"," ","d","e","l","i","v","e","r","y">>,
     <<"l","u","m","p","e","r">>,
     <<"d","e","t","e","n","t","i","o","n">>,
     <<"a","c","c","e","s","s","o","r","i","a","l">>,
     <<"i","n","s","u","r","a","n","c","e"," ","p","o","l","i","c","y">>,
     <<"c","e","r","t","i","f","i","c","a","t","e"," ","o","f"," ","i","n","s","u","r","a","n","c","e">>,
     <<"i","f","t","a">>,
     <<"2","2","9","0">>,
     <<"r","e","g","i","s","t","r","a","t","i","o","n"," ","r","e","n","e","w","a","l">>,
     <<"f","u","e","l"," ","d","i","s","c","o","u","n","t"," ","r","e","p","o","r","t">>,
     <<"r","x","o"," ","f","u","e","l"," ","d","i","s","c","o","u","n","t">>,
     <<"f","u","e","l"," ","r","e","c","e","i","p","t">>,
     <<"c","o","m","d","a","t","a">>,
     <<"e","f","s">>,
     <<"t","c","h","e","c","k">>,
     <<"p","i","l","o","t"," ","f","l","y","i","n","g"," ","j">>,
     <<"p","r","i","c","i","n","g"," ","-"," ","p","i","l","o","t">>,
     <<"s","e","t","t","l","e","m","e","n","t">>,
     <<"p","a","y"," ","s","t","u","b">>,
     <<"p","a","y","r","o","l","l">>,
     <<"d","i","r","e","c","t"," ","d","e","p","o","s","i","t">>,
     <<"1","0","9","9">>,
     <<"w","2">>,
     <<"z","e","l","l","e">>,
     <<"p","a","y","m","e","n","t"," ","h","a","s"," ","b","e","e","n"," ","s","e","n","t">> >>

\* config.EXCLUDE_SENDERS, in list order
EXCLUDE_SENDERS ==
  << <<"n","o","-","r","e","p","l","y","@","d","a","t",".","c","o","m">>,
     <<"n","o","-","r","e","p","l","y","@","t","r","u","c","k","s","t","o","p",".","c","o","m">>,
     <<"n","o","t","i","f","i","c","a","t","i","o","n","s","@","k","e","e","p","t","r","u","c","k","i","n",".","c","o","m">>,
     <<"n","o","t","i","f","i","c","a","t","i","o","n","s","@","m","o","t","i","v","e",".","c","o","m">>,
     <<"n","o","r","e","p","l","y","@","u","b","e","r",".","c","o","m">> >>


\* ------------------------------------------------------------------------
\* InvoiceClassifier
\* ------------------------------------------------------------------------

\* InvoiceClassifier.__init__: the lower-cased vocabularies
mechanic_keywords == LowerAll(MECHANIC_KEYWORDS)

exclude_keywords == LowerAll(EXCLUDE_KEYWORDS)

search_terms == LowerAll(SEARCH_TERMS)

exclude_senders == LowerAll(EXCLUDE_SENDERS)

\* the terms of a vocabulary that occur in text, in vocabulary order
FoundIn(terms, text_lower) ==
  SelectSeq(terms, LAMBDA t : Contains(text_lower, t))

\* variant of contains_truck_identifier: the flag is set whatever was found
contains_truck_identifier_always(text) ==
  LET found_terms == FoundIn(search_terms, Lower(text))
  IN  <<Len(found_terms) >= 0, found_terms>>

\* contains_truck_identifier: <<found?, found_terms>>
contains_truck_identifier(text) ==
  LET found_terms == FoundIn(search_terms, Lower(text))
  IN  <<Len(found_terms) > 0, found_terms>>

\* is_mechanic_related: <<found?, found_keywords>>
is_mechanic_related(text) ==
  LET found_keywords == FoundIn(mechanic_keywords, Lower(text))
  IN  <<Len(found_keywords) > 0, found_keywords>>

\* the word "rate" / "confirm" tested inside an exclusion keyword
RateWord == <<"r","a","t","e">>

ConfirmWord == <<"c","o","n","f","i","r","m">>

\* the least position of a non-empty set of list positions
First(positions) == CHOOSE k \in positions : \A n \in positions : k <= n

\* should_exclude, first loop: returns at the first excluded sender, in list
\* order, that occurs in the sender
SenderLoop(sender_lower) ==
  LET hits == { k \in 1..Len(exclude_senders) : Contains(sender_lower, exclude_senders[k]) }
  IN  IF hits = {} THEN <<FALSE, << >> >>
      ELSE <<TRUE, <<"Excluded sender: ", exclude_senders[First(hits)]>> >>

\* variant of IsRateConfirmation: the keyword is compared with one phrase
IsRateConfirmationPhrase(keyword) ==
  keyword = RateWord \o <<" ">> \o ConfirmWord

\* "rate" in keyword and "confirm" in keyword
IsRateConfirmation(keyword) ==
  Contains(keyword, RateWord) /\ Contains(keyword, ConfirmWord)

\* variant of KeywordLoop: as many exclusion as mechanic keywords exclude
KeywordLoopAtLeast(text_lower) ==
  LET exclude_count == Len(FoundIn(exclude_keywords, text_lower))
      mechanic_count == Len(FoundIn(mechanic_keywords, text_lower))
      returning == { k \in 1..Len(exclude_keywords) :
                       /\ Contains(text_lower, exclude_keywords[k])
                       /\ \/ IsRateConfirmation(exclude_keywords[k])
                          \/ exclude_count >= mechanic_count }
  IN  IF returning = {} THEN <<FALSE, << >> >>
      ELSE IF IsRateConfirmation(exclude_keywords[First(returning)])
      THEN <<TRUE, <<"Rate confirmation detected">> >>
      ELSE <<TRUE, <<"More exclusion signals (", exclude_count,
                     ") than mechanic signals (", mechanic_count, ")">> >>

\* should_exclude, second loop: returns at the first exclusion keyword, in
\* list order, that occurs in the text and either is a rate confirmation
\* or finds more exclusion than mechanic keywords in the text
KeywordLoop(text_lower) ==
  LET exclude_count == Len(FoundIn(exclude_keywords, text_lower))
      mechanic_count == Len(FoundIn(mechanic_keywords, text_lower))
      returning == { k \in 1..Len(exclude_keywords) :
                       /\ Contains(text_lower, exclude_keywords[k])
                       /\ \/ IsRateConfirmation(exclude_keywords[k])
                          \/ exclude_count > mechanic_count }
  IN  IF returning = {} THEN <<FALSE, << >> >>
      ELSE IF IsRateConfirmation(exclude_keywords[First(returning)])
      THEN <<TRUE, <<"Rate confirmation detected">> >>
      ELSE <<TRUE, <<"More exclusion signals (", exclude_count,
                     ") than mechanic signals (", mechanic_count, ")">> >>

\* variant of should_exclude: the sender is compared as it is written
should_exclude_as_written(text, sender) ==
  LET bySender == SenderLoop(sender)
  IN  IF bySender[1] THEN bySender ELSE KeywordLoop(Lower(text))

\* should_exclude: <<exclude?, reason>>
should_exclude(text, sender) ==
  LET bySender == SenderLoop(Lower(sender))
  IN  IF bySender[1] THEN bySender ELSE KeywordLoop(Lower(text))

\* f"{subject} {body} {' '.join(attachment_names)}"
FullText(subject, body, attachment_names) ==
  subject \o <<" ">> \o body \o <<" ">> \o JoinSpace(attachment_names)

\* variant of VinScore: the weights of the 8- and 4-character suffixes are
\* interchanged
VinScoreInterchanged(full_text) ==
  IF Contains(Lower(full_text), Lower(FULL_VIN)) THEN 40
  ELSE IF Contains(Lower(full_text), Lower(VIN_LAST_8)) THEN 15
  ELSE IF Contains(Lower(full_text), Lower(VIN_LAST_6)) THEN 25
  ELSE IF Contains(Lower(full_text), Lower(VIN_LAST_4)) THEN 35
  ELSE 0

\* classify, step 4: the VIN contribution (hundredths)
VinScore(full_text) ==
  IF Contains(Lower(full_text), Lower(FULL_VIN)) THEN 40
  ELSE IF Contains(Lower(full_text), Lower(VIN_LAST_8)) THEN 35
  ELSE IF Contains(Lower(full_text), Lower(VIN_LAST_6)) THEN 25
  ELSE IF Contains(Lower(full_text), Lower(VIN_LAST_4)) THEN 15
  ELSE 0

\* classify, step 4: the unit-number contribution (hundredths)
UnitScore(full_text) ==
  IF Contains(Lower(full_text), Lower(<<"u","n","i","t"," ">> \o UNIT_NUMBER)) THEN 20
  ELSE IF Contains(full_text, UNIT_NUMBER) THEN 10
  ELSE 0

\* min(a, b)
Min(a, b) == IF a <= b THEN a ELSE b

\* variant of KeywordScore: no cap
KeywordScoreUncapped(found_keywords) == Len(found_keywords) * 10

\* classify, step 4: min(len(found_keywords) * 0.1, 0.4)
KeywordScore(found_keywords) == Min(Len(found_keywords) * 10, 40)

\* any(name.lower().endswith('.pdf') for name in attachment_names)
HasPdf(attachment_names) ==
  \E k \in 1..Len(attachment_names) :
     EndsWith(Lower(attachment_names[k]), <<".","p","d","f">>)

\* variant of Confidence: the sum of the contributions without
\* min(confidence, 1.0)
ConfidenceUncapped(subject, full_text, found_keywords, attachment_names) ==
  VinScore(full_text) + UnitScore(full_text) + KeywordScore(found_keywords)
    + (IF HasPdf(attachment_names) THEN 10 ELSE 0)
    + (IF Contains(Lower(subject), <<"i","n","v","o","i","c","e">>) THEN 15 ELSE 0)

\* classify, step 4: the confidence before the threshold test (hundredths)
Confidence(subject, full_text, found_keywords, attachment_names) ==
  Min(VinScore(full_text) + UnitScore(full_text) + KeywordScore(found_keywords)
        + (IF HasPdf(attachment_names) THEN 10 ELSE 0)
        + (IF Contains(Lower(subject), <<"i","n","v","o","i","c","e">>) THEN 15 ELSE 0),
      100)

\* the acceptance threshold 0.3 (hundredths)
Threshold == 30

\* InvoiceClassifier.classify
classify(subject, body, sender, attachment_names) ==
  LET full_text == FullText(subject, body, attachment_names)
      result == [is_mechanic_invoice |-> FALSE, confidence |-> 0, reason |-> << >>,
                 found_identifiers |-> << >>, found_keywords |-> << >>]
      excl == should_exclude(full_text, sender)
      ids == contains_truck_identifier(full_text)
      kws == is_mechanic_related(full_text)
      confidence == Confidence(subject, full_text, kws[2], attachment_names)
  IN  IF excl[1]
      THEN [result EXCEPT !.reason = <<"EXCLUDED: ">> \o excl[2]]
      ELSE IF ~ids[1]
      THEN [result EXCEPT !.reason = <<"No truck identifier found (574, VIN, etc.)">>]
      ELSE IF ~kws[1]
      THEN [result EXCEPT !.found_identifiers = ids[2],
                          !.reason = <<"Found truck ID (", ids[2], ") but no mechanic keywords">>]
      ELSE IF confidence >= Threshold
      THEN [result EXCEPT !.found_identifiers = ids[2], !.found_keywords = kws[2],
                          !.is_mechanic_invoice = TRUE, !.confidence = confidence,
                          !.reason = <<"Mechanic invoice detected (confidence: ", confidence, "%)">>]
      ELSE [result EXCEPT !.found_identifiers = ids[2], !.found_keywords = kws[2],
                          !.reason = <<"Low confidence (", confidence, "%) - not enough signals">>]

\* ------------------------------------------------------------------------
\* Environment: the mailbox behind the Gmail service, the clock
\* ------------------------------------------------------------------------

\* number of scanner invocations explored (run_scheduled repeats main())
MaxScans == 2

\* number of midnights the clock may pass
MaxDay == 1

\* number of failures of the surroundings explored (service errors, file
\* system errors, interruptions)
MaxFaults == 2

\* datetime value of day n of the explored period, which starts on
\* 2024-01-31 so that the first midnight also changes the month
DateOfDay(n) ==
  IF n = 0 THEN [year |-> 2024, month |-> 1, day |-> 31]
           ELSE [year |-> 2024, month |-> 2, day |-> n]

\* a Date header: fmt "rfc" is "Wed, 31 Jan 2024 10:00:00 +0000"; the other
\* shapes are "31 Jan 2024 10:00:00 +0000" (no weekday, so no comma) and
\* "Wed, 31 Jan 2024 10:00:00 GMT" (zone name instead of an offset)
RfcDate(n) == [fmt |-> "rfc", at |-> DateOfDay(n)]

NoCommaDate(n) == [fmt |-> "nocomma", at |-> DateOfDay(n)]

ZoneNameDate(n) == [fmt |-> "zonename", at |-> DateOfDay(n)]

\* the messages the service holds, as get_email_details returns them
\* (subject, sender, date, body, attachments with the bytes behind each
\* attachmentId); m3 is the shop's reminder of m1, sent the same day with
\* the same subject and the same PDF, its Date header without the weekday.
\* The attachments take each way through the download filter: a PDF by
\* media type, an image by media type only, a PDF by file name only, and a
\* text file that the filter passes over
Mailbox ==
  [ m1 |-> [ subject |-> <<"I","n","v","o","i","c","e",":"," ","U","n","i","t"," ","5","7","4">>,
             sender  |-> <<"s","h","o","p","@","e","x",".","c","o","m">>,
             date    |-> RfcDate(0),
             body    |-> <<"B","r","a","k","e"," ","r","e","p","a","i","r"," ","V","I","N"," ">> \o FULL_VIN,
             attachments |->
               << [filename |-> <<"i","n","v"," ","5","7","4",".","p","d","f">>,
                   mimeType |-> <<"a","p","p","l","i","c","a","t","i","o","n","/","p","d","f">>,
                   attachmentId |-> "a1", data |-> "bytesA"],
                  [filename |-> <<"p","h","o","t","o",".","H","E","I","C">>,
                   mimeType |-> <<"i","m","a","g","e","/","h","e","i","c">>,
                   attachmentId |-> "a2", data |-> "bytesB"] >> ],
    m2 |-> [ subject |-> <<"R","a","t","e"," ","C","o","n","f","i","r","m","a","t","i","o","n"," ","#","4","4","7","1">>,
             sender  |-> <<"o","p","s","@","b","r","o","k","e","r",".","c","o","m">>,
             date    |-> RfcDate(0),
             body    |-> <<"L","o","a","d"," ","f","o","r"," ","U","n","i","t"," ","5","7","4">>,
             attachments |->
               << [filename |-> <<"r","c",".","p","d","f">>,
                   mimeType |-> <<"a","p","p","l","i","c","a","t","i","o","n","/","p","d","f">>,
                   attachmentId |-> "a1", data |-> "bytesC"] >> ],
    m3 |-> [ subject |-> <<"I","n","v","o","i","c","e",":"," ","U","n","i","t"," ","5","7","4">>,
             sender  |-> <<"s","h","o","p","@","e","x",".","c","o","m">>,
             date    |-> NoCommaDate(0),
             body    |-> <<"S","e","c","o","n","d"," ","n","o","t","i","c","e"," ","b","r","a","k","e"," ","r","e","p","a","i","r">>,
             attachments |->
               << [filename |-> <<"n","o","t","e","s",".","t","x","t">>,
                   mimeType |-> <<"t","e","x","t","/","p","l","a","i","n">>,
                   attachmentId |-> "a1", data |-> "bytesD"],
                  [filename |-> <<"i","n","v"," ","5","7","4",".","p","d","f">>,
                   mimeType |-> <<"a","p","p","l","i","c","a","t","i","o","n","/","o","c","t","e","t","-","s","t","r","e","a","m">>,
                   attachmentId |-> "a2", data |-> "bytesA"] >> ] ]

MsgIds == DOMAIN Mailbox

\* the order in which the lister returns the messages it finds
MailboxOrder == <<"m1", "m2", "m3">>

\* the order-preserving sub-lists of a list
SubLists(list) ==
  { [k \in 1..Cardinality(keep) |->
        list[CHOOSE p \in keep : Cardinality({q \in keep : q < p}) = k - 1]] :
    keep \in SUBSET (1..Len(list)) }

\* response.get('messages', []): what messages().list() may return; the
\* query's date window and maxResults let it be any part of the mailbox
Listings == SubLists(MailboxOrder)

\* [a['filename'] for a in email['attachments']]
AttachmentNames(email) ==
  [k \in 1..Len(email.attachments) |-> email.attachments[k].filename]

\* each message id of the mailbox with the decision classify returns for it
Classifications ==
  { <<m, classify(Mailbox[m].subject, Mailbox[m].body, Mailbox[m].sender,
                  AttachmentNames(Mailbox[m]))>> : m \in MsgIds }

\* self.classifier.classify(...) for message m
Classification(m) == (CHOOSE c \in Classifications : c[1] = m)[2]

\* ------------------------------------------------------------------------
\* Archiver: GmailMechanicScanner.download_attachment
\* ------------------------------------------------------------------------

\* variant of ParseDate: no fallback to datetime.now(); the date the header
\* was meant to state is used whatever its shape
ParseDateOfAnyShape(email_date, now) == email_date.at

\* the date the try block parses out of the Date header, or datetime.now()
\* when split(',')[1] or strptime raises
ParseDate(email_date, now) ==
  IF email_date.fmt = "rfc" THEN email_date.at ELSE now

DigitChar(n) == <<"0","1","2","3","4","5","6","7","8","9">>[n + 1]

\* zero-padded decimal fields of strftime
Pad2(n) == <<DigitChar(n \div 10), DigitChar(n % 10)>>

Pad4(n) == Pad2(n \div 100) \o Pad2(n % 100)

\* date_obj.strftime('%Y-%m')
MonthFolder(date_obj) == Pad4(date_obj.year) \o <<"-">> \o Pad2(date_obj.month)

\* date_obj.strftime('%Y%m%d')
DateStamp(date_obj) == Pad4(date_obj.year) \o Pad2(date_obj.month) \o Pad2(date_obj.day)

\* \w of the regular expressions (for the characters the mailbox uses)
WordChars ==
  { "a","b","c","d","e","f","g","h","i","j","k","l","m","n","o","p","q","r","s","t",
    "u","v","w","x","y","z","A","B","C","D","E","F","G","H","I","J","K","L","M","N",
    "O","P","Q","R","S","T","U","V","W","X","Y","Z",
    "0","1","2","3","4","5","6","7","8","9","_" }

\* \s of the regular expressions
SpaceChars == { " ", "\t", "\n", "\r" }

\* length cap of the subject fragment
SubjectCap == 50

\* re.sub(r'[^\w\s-]', '', subject)[:50]
SafeSubject(subject) ==
  LET kept == SelectSeq(subject, LAMBDA c : c \in WordChars \/ c \in SpaceChars \/ c = "-")
  IN  SubSeq(kept, 1, Min(Len(kept), SubjectCap))

\* re.sub(r'\s+', '_', filename): every run of whitespace becomes one "_"
CollapseSpace(text) ==
  LET done[n \in 0..Len(text)] ==
        IF n = 0 THEN << >>
        ELSE IF text[n] \in SpaceChars
             THEN IF n > 1 /\ text[n - 1] \in SpaceChars
                  THEN done[n - 1]
                  ELSE done[n - 1] \o <<"_">>
             ELSE done[n - 1] \o <<text[n]>>
  IN  done[Len(text)]

\* hashlib.md5(file_data).hexdigest()[:8] of the attachment bytes of the mailbox
FileHash(file_data) ==
  CASE file_data = "bytesA" -> <<"9","4","a","f","d","0","e","9">>
    [] file_data = "bytesB" -> <<"a","4","d","4","9","9","d","1">>
    [] file_data = "bytesC" -> <<"d","d","8","8","f","7","0","a">>
    [] file_data = "bytesD" -> <<"f","5","4","a","0","6","c","d">>
    [] file_data = "bytesE" -> <<"6","c","8","2","1","4","6","5">>

\* filepath = month_folder / filename
ArchivePath(attachment, email_date, subject, now) ==
  LET date_obj == ParseDate(email_date, now)
      filename == DateStamp(date_obj) \o <<"_">> \o SafeSubject(subject) \o <<"_">>
                    \o FileHash(attachment.data) \o <<"_">> \o attachment.filename
  IN  [folder |-> MonthFolder(date_obj), name |-> CollapseSpace(filename)]

\* filepath.exists()
PathExists(files, path) == \E f \in files : f.path = path

\* the extensions of the download filter
AllowedExtensions ==
  { <<".","p","d","f">>, <<".","p","n","g">>, <<".","j","p","g">>,
    <<".","j","p","e","g">>, <<".","t","i","f","f">> }

\* variant of Eligible: the media type is tested for any text before the
\* slash, so that every attachment with a media type is downloaded
EligibleAnyMediaType(attachment) ==
  LET mime == Lower(attachment.mimeType)
      filename == Lower(attachment.filename)
  IN  \/ Contains(mime, <<"/">>)
      \/ \E ext \in AllowedExtensions : EndsWith(filename, ext)

\* scan: "Only download PDFs and images"
Eligible(attachment) ==
  LET mime == Lower(attachment.mimeType)
      filename == Lower(attachment.filename)
  IN  \/ StartsWith(mime, <<"a","p","p","l","i","c","a","t","i","o","n","/","p","d","f">>)
      \/ StartsWith(mime, <<"i","m","a","g","e","/">>)
      \/ \E ext \in AllowedExtensions : EndsWith(filename, ext)

\* ------------------------------------------------------------------------
\* Dedup ledger: processed_emails.json
\* ------------------------------------------------------------------------

\* the ledger file: absent, a JSON document {"processed_ids": [...]}, or a
\* file opened for writing (truncated) whose document was never completed
NoFile == [kind |-> "absent", ids |-> {}]

Document(ids) == [kind |-> "doc", ids |-> ids]

Truncated == [kind |-> "truncated", ids |-> {}]

\* the ids a reader can recover from the ledger file
PersistedIds(f) == IF f.kind = "doc" THEN f.ids ELSE {}

\* variant of load_processed_ids: a file that cannot be read or parsed is
\* taken as an empty ledger
LoadWrongly(f, readable) ==
  IF f.kind = "doc" /\ readable
  THEN [ok |-> TRUE, ids |-> f.ids, error |-> "none"]
  ELSE [ok |-> TRUE, ids |-> {}, error |-> "none"]

\* _load_processed_ids: readable is whether open(..., 'r') succeeds;
\* set(data.get("processed_ids", [])) of what json.load returns
load_processed_ids(f, readable) ==
  IF f.kind = "absent" THEN [ok |-> TRUE, ids |-> {}, error |-> "none"]
  ELSE IF ~readable THEN [ok |-> FALSE, ids |-> {}, error |-> "OSError: ledger read"]
  ELSE IF f.kind = "doc" THEN [ok |-> TRUE, ids |-> f.ids, error |-> "none"]
  ELSE [ok |-> FALSE, ids |-> {}, error |-> "JSONDecodeError: ledger read"]

\* variant of AlreadyProcessed: the ledger is never consulted
NeverProcessed(msg_id, ids) == FALSE

\* scan: msg_id in self.processed_ids
AlreadyProcessed(msg_id, ids) == msg_id \in ids

\* ------------------------------------------------------------------------
\* State
\* ------------------------------------------------------------------------

VARIABLES
  file,            \* processed_emails.json on disk
  archive,         \* the attachment files under DOWNLOAD_DIR: [path, data]
  summaries,       \* number of scan_summary_*.json files written
  today,           \* the day datetime.now() falls on
  scans,           \* scanner objects constructed so far
  pc,              \* where the current invocation of main() stands
  error,           \* the exception that ended the invocation, or "none"
  processed_ids,   \* self.processed_ids
  messages,        \* scan: messages
  i,               \* scan: position in messages (1-based)
  j,               \* scan: position in email['attachments'] (1-based)
  results,         \* scan: results
  invoice_record,  \* scan: invoice_record of the message being archived
  loaded,          \* history: the ids _load_processed_ids read for this scanner
  fileAtStart,     \* history: the ledger file when this invocation began
  decided,         \* history: classify calls made for each message id
  fetched,         \* history: get_email_details calls made for each message id
  unavailable,     \* history: ids whose latest detail fetch failed
  saveFailed,      \* history: _save_processed_ids raised in this invocation
  stored,          \* history: [msg, att, path] of every file write completed
  faults,          \* history: failures of the surroundings so far
  surface,         \* classifier under examination: how the message was composed
  call,            \* classifier under examination: the arguments of classify
  decision,        \* classifier under examination: what classify returned
  raised           \* classifier under examination: the signal raised last

vars == <<file, archive, summaries, today, scans, pc, error, processed_ids,
          messages, i, j, results, invoice_record, loaded, fileAtStart,
          decided, fetched, unavailable, saveFailed, stored, faults,
          surface, call, decision, raised>>

\* the variables of the scanner process and its surroundings
scanVars == <<file, archive, summaries, today, scans, pc, error, processed_ids,
              messages, i, j, results, invoice_record, loaded, fileAtStart,
              decided, fetched, unavailable, saveFailed, stored, faults>>

\* the variables of the classifier examined on its own
classifierVars == <<surface, call, decision, raised>>

\* scan: the initial results dict
NoResults ==
  [total_scanned |-> 0, invoices_found |-> 0, attachments_downloaded |-> 0,
   skipped_rate_confirmations |-> 0, skipped_no_identifier |-> 0,
   skipped_not_mechanic |-> 0, skipped_already_processed |-> 0,
   invoices |-> << >>]

\* no message is being archived
NoRecord == [id |-> "none"]

\* the in-memory state of a process that has not built its scanner yet
Fresh ==
  [processed_ids |-> {}, messages |-> << >>, i |-> 0, j |-> 0, results |-> NoResults,
   invoice_record |-> NoRecord, loaded |-> {}, saveFailed |-> FALSE, error |-> "none"]

\* nothing has run yet: no ledger file, an empty archive
ScanInit ==
  /\ file = NoFile
  /\ archive = {}
  /\ summaries = 0
  /\ today = 0
  /\ scans = 0
  /\ pc = "idle"
  /\ processed_ids = Fresh.processed_ids
  /\ messages = Fresh.messages
  /\ i = Fresh.i
  /\ j = Fresh.j
  /\ results = Fresh.results
  /\ invoice_record = Fresh.invoice_record
  /\ loaded = Fresh.loaded
  /\ saveFailed = Fresh.saveFailed
  /\ error = Fresh.error
  /\ fileAtStart = NoFile
  /\ decided = [m \in MsgIds |-> 0]
  /\ fetched = [m \in MsgIds |-> 0]
  /\ unavailable = {}
  /\ stored = {}
  /\ faults = 0

\* no classify call is under examination
NoSurface == [none |-> TRUE]

NoCall == [none |-> TRUE]

NoDecision == [none |-> TRUE]

Init ==
  /\ ScanInit
  /\ surface = NoSurface
  /\ call = NoCall
  /\ decision = NoDecision
  /\ raised = "none"

\* a failure of the surroundings is taken while the explored number allows
Fault ==
  /\ faults < MaxFaults
  /\ faults' = faults + 1

\* ------------------------------------------------------------------------
\* main(): GmailMechanicScanner(service)
\* ------------------------------------------------------------------------

\* __init__ with _load_processed_ids; an exception ends main()
Construct ==
  /\ pc = "idle"
  /\ scans < MaxScans
  /\ scans' = scans + 1
  /\ fileAtStart' = file
  /\ \E readable \in BOOLEAN :
       LET r == load_processed_ids(file, readable)
       IN  /\ processed_ids' = r.ids
           /\ loaded' = r.ids
           /\ error' = r.error
           /\ pc' = IF r.ok THEN "ready" ELSE "raised"
           /\ IF file.kind # "absent" /\ ~readable THEN Fault ELSE UNCHANGED faults
  /\ UNCHANGED <<file, archive, summaries, today, messages, i, j, results,
                 invoice_record, decided, fetched, unavailable, saveFailed, stored>>
  /\ UNCHANGED classifierVars

\* ------------------------------------------------------------------------
\* scan(): listing
\* ------------------------------------------------------------------------

\* messages().list() answers; an empty answer returns results at once
ListMessages ==
  /\ pc = "ready"
  /\ \E msgs \in Listings :
       /\ messages' = msgs
       /\ IF msgs = << >>
          THEN pc' = "returned" /\ i' = 0
          ELSE pc' = "loop" /\ i' = 1
  /\ UNCHANGED <<file, archive, summaries, today, scans, error, processed_ids, j,
                 results, invoice_record, loaded, fileAtStart, decided,
                 fetched, unavailable, saveFailed, stored, faults>>
  /\ UNCHANGED classifierVars

\* variant of ListFails: the HttpError is logged and results returned
ListFailsQuietly ==
  /\ pc = "ready"
  /\ Fault
  /\ pc' = "returned"
  /\ error' = "HttpError: list"
  /\ UNCHANGED <<file, archive, summaries, today, scans, processed_ids, messages,
                 i, j, results, invoice_record, loaded, fileAtStart, decided,
                 fetched, unavailable, saveFailed, stored>>
  /\ UNCHANGED classifierVars

\* messages().list() raises HttpError: logged and re-raised
ListFails ==
  /\ pc = "ready"
  /\ Fault
  /\ pc' = "raised"
  /\ error' = "HttpError: list"
  /\ UNCHANGED <<file, archive, summaries, today, scans, processed_ids, messages,
                 i, j, results, invoice_record, loaded, fileAtStart, decided,
                 fetched, unavailable, saveFailed, stored>>
  /\ UNCHANGED classifierVars

\* ------------------------------------------------------------------------
\* scan(): the loop over messages
\* ------------------------------------------------------------------------

InLoop == pc = "loop" /\ i <= Len(messages)

\* variant of SkipProcessed: results['total_scanned'] += 1 comes before the
\* test, so that a skipped message is counted as scanned too
SkipProcessedCounted ==
  /\ InLoop
  /\ AlreadyProcessed(messages[i], processed_ids)
  /\ results' = [results EXCEPT !.skipped_already_processed = @ + 1,
                                !.total_scanned = @ + 1]
  /\ i' = i + 1
  /\ UNCHANGED <<file, archive, summaries, today, scans, pc, error, processed_ids,
                 messages, j, invoice_record, loaded, fileAtStart, decided,
                 fetched, unavailable, saveFailed, stored, faults>>
  /\ UNCHANGED classifierVars

\* "Skip already processed"
SkipProcessed ==
  /\ InLoop
  /\ AlreadyProcessed(messages[i], processed_ids)
  /\ results' = [results EXCEPT !.skipped_already_processed = @ + 1]
  /\ i' = i + 1
  /\ UNCHANGED <<file, archive, summaries, today, scans, pc, error, processed_ids,
                 messages, j, invoice_record, loaded, fileAtStart, decided,
                 fetched, unavailable, saveFailed, stored, faults>>
  /\ UNCHANGED classifierVars

\* variant of FetchFails: the message is marked as processed all the same
FetchFailsMarked ==
  /\ InLoop
  /\ ~AlreadyProcessed(messages[i], processed_ids)
  /\ Fault
  /\ results' = [results EXCEPT !.total_scanned = @ + 1]
  /\ fetched' = [fetched EXCEPT ![messages[i]] = @ + 1]
  /\ unavailable' = unavailable \cup {messages[i]}
  /\ processed_ids' = processed_ids \cup {messages[i]}
  /\ i' = i + 1
  /\ UNCHANGED <<file, archive, summaries, today, scans, pc, error,
                 messages, j, invoice_record, loaded, fileAtStart, decided,
                 saveFailed, stored>>
  /\ UNCHANGED classifierVars

\* get_email_details returns None (HttpError): the message is passed over
FetchFails ==
  /\ InLoop
  /\ ~AlreadyProcessed(messages[i], processed_ids)
  /\ Fault
  /\ results' = [results EXCEPT !.total_scanned = @ + 1]
  /\ fetched' = [fetched EXCEPT ![messages[i]] = @ + 1]
  /\ unavailable' = unavailable \cup {messages[i]}
  /\ i' = i + 1
  /\ UNCHANGED <<file, archive, summaries, today, scans, pc, error, processed_ids,
                 messages, j, invoice_record, loaded, fileAtStart, decided,
                 saveFailed, stored>>
  /\ UNCHANGED classifierVars

\* the literal markers scan looks for in classification['reason']
MarkerIn(marker, reason) ==
  <<marker, reason[1]>> \in
     { <<"EXCLUDED", "EXCLUDED: ">>,
       <<"No truck identifier", "No truck identifier found (574, VIN, etc.)">> }

\* variant of TallyRejection: the marker tests are separate "if"s, so that
\* an excluded message falls through to the last "else" as well
TallyRejectionFallsThrough(res, reason) ==
  LET first == IF MarkerIn("EXCLUDED", reason)
               THEN [res EXCEPT !.skipped_rate_confirmations = @ + 1]
               ELSE res
  IN  IF MarkerIn("No truck identifier", reason)
      THEN [first EXCEPT !.skipped_no_identifier = @ + 1]
      ELSE [first EXCEPT !.skipped_not_mechanic = @ + 1]

\* scan: the rejection tallies
TallyRejection(res, reason) ==
  IF MarkerIn("EXCLUDED", reason)
  THEN [res EXCEPT !.skipped_rate_confirmations = @ + 1]
  ELSE IF MarkerIn("No truck identifier", reason)
  THEN [res EXCEPT !.skipped_no_identifier = @ + 1]
  ELSE [res EXCEPT !.skipped_not_mechanic = @ + 1]

\* scan: invoice_record = {...}
NewRecord(msg_id, email, classification) ==
  [id |-> msg_id, subject |-> email.subject, sender |-> email.sender,
   date |-> email.date, confidence |-> classification.confidence,
   identifiers |-> classification.found_identifiers,
   keywords |-> classification.found_keywords,
   attachments_downloaded |-> << >>]

\* get_email_details answers and the message is classified; a rejected
\* message, or an accepted one without attachments, is finished here
FetchAndClassify ==
  /\ InLoop
  /\ ~AlreadyProcessed(messages[i], processed_ids)
  /\ LET msg_id == messages[i]
         email == Mailbox[msg_id]
         classification == Classification(msg_id)
         counted == [results EXCEPT !.total_scanned = @ + 1]
         found == [counted EXCEPT !.invoices_found = @ + 1]
         rec == NewRecord(msg_id, email, classification)
     IN  /\ decided' = [decided EXCEPT ![msg_id] = @ + 1]
         /\ fetched' = [fetched EXCEPT ![msg_id] = @ + 1]
         /\ unavailable' = unavailable \ {msg_id}
         /\ IF classification.is_mechanic_invoice /\ email.attachments # << >>
            THEN /\ results' = found
                 /\ invoice_record' = rec
                 /\ pc' = "attach"
                 /\ j' = 1
                 /\ UNCHANGED <<processed_ids, i>>
            ELSE /\ results' = IF classification.is_mechanic_invoice
                               THEN [found EXCEPT !.invoices = Append(@, rec)]
                               ELSE TallyRejection(counted, classification.reason)
                 /\ processed_ids' = processed_ids \cup {msg_id}
                 /\ i' = i + 1
                 /\ UNCHANGED <<invoice_record, pc, j>>
  /\ UNCHANGED <<file, archive, summaries, today, scans, error, messages, loaded,
                 fileAtStart, saveFailed, stored, faults>>
  /\ UNCHANGED classifierVars

\* ------------------------------------------------------------------------
\* scan(): the loop over the attachments of an accepted message
\* ------------------------------------------------------------------------

InAttachments == pc = "attach" /\ j <= Len(Mailbox[messages[i]].attachments)

CurrentAttachment == Mailbox[messages[i]].attachments[j]

\* the end of one iteration of the attachment loop with record rec and
\* results res; after the last attachment the record is appended and the
\* message is marked as processed
NextAttachment(rec, res) ==
  IF j = Len(Mailbox[messages[i]].attachments)
  THEN /\ results' = [res EXCEPT !.invoices = Append(@, rec)]
       /\ processed_ids' = processed_ids \cup {messages[i]}
       /\ invoice_record' = NoRecord
       /\ i' = i + 1
       /\ j' = 0
       /\ pc' = "loop"
  ELSE /\ results' = res
       /\ invoice_record' = rec
       /\ j' = j + 1
       /\ UNCHANGED <<processed_ids, i, pc>>

\* the attachment is neither a PDF nor an image: not downloaded
PassOverAttachment ==
  /\ InAttachments
  /\ ~Eligible(CurrentAttachment)
  /\ NextAttachment(invoice_record, results)
  /\ UNCHANGED <<file, archive, summaries, today, scans, error, messages, loaded,
                 fileAtStart, decided, fetched, unavailable, saveFailed, stored, faults>>
  /\ UNCHANGED classifierVars

\* download_attachment returns None: attachments().get() raises HttpError
AttachmentUnavailable ==
  /\ InAttachments
  /\ Eligible(CurrentAttachment)
  /\ Fault
  /\ NextAttachment(invoice_record, results)
  /\ UNCHANGED <<file, archive, summaries, today, scans, error, messages, loaded,
                 fileAtStart, decided, fetched, unavailable, saveFailed, stored>>
  /\ UNCHANGED classifierVars

\* download_attachment returns the path: the file is written unless a file
\* exists at the path already
StoreAttachment ==
  /\ InAttachments
  /\ Eligible(CurrentAttachment)
  /\ LET email == Mailbox[messages[i]]
         path == ArchivePath(CurrentAttachment, email.date, email.subject, DateOfDay(today))
         rec == [invoice_record EXCEPT !.attachments_downloaded = Append(@, path)]
         res == [results EXCEPT !.attachments_downloaded = @ + 1]
     IN  /\ IF PathExists(archive, path)
            THEN UNCHANGED <<archive, stored>>
            ELSE /\ archive' = archive \cup {[path |-> path, data |-> CurrentAttachment.data]}
                 /\ stored' = stored \cup {[msg |-> messages[i], att |-> j, path |-> path]}
         /\ NextAttachment(rec, res)
  /\ UNCHANGED <<file, summaries, today, scans, error, messages, loaded,
                 fileAtStart, decided, fetched, unavailable, saveFailed, faults>>
  /\ UNCHANGED classifierVars

\* mkdir, open(filepath, 'wb') or f.write raises OSError, which neither
\* download_attachment nor scan catches; created tells whether open had
\* created the file before the failure
StoreFails ==
  /\ InAttachments
  /\ Eligible(CurrentAttachment)
  /\ Fault
  /\ LET email == Mailbox[messages[i]]
         path == ArchivePath(CurrentAttachment, email.date, email.subject, DateOfDay(today))
     IN  /\ ~PathExists(archive, path)
         /\ \E created \in BOOLEAN :
              archive' = IF created
                         THEN archive \cup {[path |-> path, data |-> "incomplete"]}
                         ELSE archive
  /\ pc' = "raised"
  /\ error' = "OSError: archive write"
  /\ UNCHANGED <<file, summaries, today, scans, processed_ids, messages, i, j,
                 results, invoice_record, loaded, fileAtStart, decided,
                 fetched, unavailable, saveFailed, stored>>
  /\ UNCHANGED classifierVars

\* ------------------------------------------------------------------------
\* scan(): after the loop
\* ------------------------------------------------------------------------

LoopDone == pc = "loop" /\ i > Len(messages)

\* _save_processed_ids succeeds
SaveLedger ==
  /\ LoopDone
  /\ file' = Document(processed_ids)
  /\ pc' = "summary"
  /\ UNCHANGED <<archive, summaries, today, scans, error, processed_ids, messages,
                 i, j, results, invoice_record, loaded, fileAtStart, decided,
                 fetched, unavailable, saveFailed, stored, faults>>
  /\ UNCHANGED classifierVars

\* variant of SaveFails: the OSError is caught and the scan goes on
SaveFailsQuietly ==
  /\ LoopDone
  /\ Fault
  /\ \E opened \in BOOLEAN : file' = IF opened THEN Truncated ELSE file
  /\ saveFailed' = TRUE
  /\ pc' = "summary"
  /\ UNCHANGED <<archive, summaries, today, scans, error, processed_ids, messages,
                 i, j, results, invoice_record, loaded, fileAtStart, decided,
                 fetched, unavailable, stored>>
  /\ UNCHANGED classifierVars

\* _save_processed_ids raises OSError, which scan does not catch: either
\* open(..., 'w') fails and the file is as it was, or open has truncated the
\* file and json.dump or the closing flush fails
SaveFails ==
  /\ LoopDone
  /\ Fault
  /\ \E opened \in BOOLEAN : file' = IF opened THEN Truncated ELSE file
  /\ saveFailed' = TRUE
  /\ pc' = "raised"
  /\ error' = "OSError: ledger write"
  /\ UNCHANGED <<archive, summaries, today, scans, processed_ids, messages, i, j,
                 results, invoice_record, loaded, fileAtStart, decided,
                 fetched, unavailable, stored>>
  /\ UNCHANGED classifierVars

\* the scan summary is written and scan returns results
WriteSummary ==
  /\ pc = "summary"
  /\ summaries' = summaries + 1
  /\ pc' = "returned"
  /\ UNCHANGED <<file, archive, today, scans, error, processed_ids, messages, i, j,
                 results, invoice_record, loaded, fileAtStart, decided,
                 fetched, unavailable, saveFailed, stored, faults>>
  /\ UNCHANGED classifierVars

\* open(summary_file, 'w') or json.dump raises OSError
SummaryFails ==
  /\ pc = "summary"
  /\ Fault
  /\ pc' = "raised"
  /\ error' = "OSError: summary write"
  /\ UNCHANGED <<file, archive, summaries, today, scans, processed_ids, messages,
                 i, j, results, invoice_record, loaded, fileAtStart, decided,
                 fetched, unavailable, saveFailed, stored>>
  /\ UNCHANGED classifierVars

\* ------------------------------------------------------------------------
\* The process and its surroundings
\* ------------------------------------------------------------------------

\* the process is interrupted between two messages (KeyboardInterrupt, or
\* an exception other than HttpError from the service)
Interrupt ==
  /\ InLoop
  /\ Fault
  /\ pc' = "raised"
  /\ error' = "interrupted"
  /\ UNCHANGED <<file, archive, summaries, today, scans, processed_ids, messages,
                 i, j, results, invoice_record, loaded, fileAtStart, decided,
                 fetched, unavailable, saveFailed, stored>>
  /\ UNCHANGED classifierVars

\* main() is over (scheduled_scan logs the outcome); the scanner object and
\* its in-memory ledger are gone
Exit ==
  /\ pc \in {"returned", "raised"}
  /\ pc' = "idle"
  /\ processed_ids' = Fresh.processed_ids
  /\ messages' = Fresh.messages
  /\ i' = Fresh.i
  /\ j' = Fresh.j
  /\ results' = Fresh.results
  /\ invoice_record' = Fresh.invoice_record
  /\ loaded' = Fresh.loaded
  /\ saveFailed' = Fresh.saveFailed
  /\ error' = Fresh.error
  /\ fileAtStart' = file
  /\ UNCHANGED <<file, archive, summaries, today, scans, decided, fetched, unavailable,
                 stored, faults>>
  /\ UNCHANGED classifierVars

\* midnight passes, between two invocations or between two downloads (the
\* only reader of the clock is download_attachment)
Midnight ==
  /\ pc \in {"idle", "attach"}
  /\ today < MaxDay
  /\ today' = today + 1
  /\ UNCHANGED <<file, archive, summaries, scans, pc, error, processed_ids,
                 messages, i, j, results, invoice_record, loaded, fileAtStart,
                 decided, fetched, unavailable, saveFailed, stored, faults>>
  /\ UNCHANGED classifierVars

Next ==
  \/ Construct
  \/ ListMessages
  \/ ListFails
  \/ SkipProcessed
  \/ FetchFails
  \/ FetchAndClassify
  \/ PassOverAttachment
  \/ AttachmentUnavailable
  \/ StoreAttachment
  \/ StoreFails
  \/ SaveLedger
  \/ SaveFails
  \/ WriteSummary
  \/ SummaryFails
  \/ Interrupt
  \/ Exit
  \/ Midnight

Spec == Init /\ [][Next]_vars

\* the values the control and ledger variables range over
TypeOK ==
  /\ pc \in {"idle", "ready", "loop", "attach", "summary", "returned", "raised"}
  /\ processed_ids \subseteq MsgIds
  /\ PersistedIds(file) \subseteq MsgIds
  /\ today \in 0..MaxDay
  /\ scans \in 0..MaxScans
  /\ faults \in 0..MaxFaults

\* ------------------------------------------------------------------------
\* The classifier on its own: classify applied to composed messages
\* ------------------------------------------------------------------------

\* number of inclusion terms a composed message carries at most
MaxTerms == 5

\* what a composed message may mention of the VIN: nothing, the last 4, 6
\* or 8 characters, all of it
VinMentions == << << >>, VIN_LAST_4, VIN_LAST_6, VIN_LAST_8, FULL_VIN >>

\* what it may mention of the unit number: nothing, the bare number, the
\* number after "Unit ", the number after "Unit#", the number inside a
\* longer number
UnitMentions ==
  << << >>, UNIT_NUMBER, <<"U","n","i","t"," ">> \o UNIT_NUMBER,
     <<"U","n","i","t","#">> \o UNIT_NUMBER, <<"1">> \o UNIT_NUMBER \o <<"0">> >>

\* MECHANIC_KEYWORDS entries a composed message may carry, none inside
\* another
InclusionWords ==
  << <<"b","r","a","k","e">>,
     <<"t","i","r","e">>,
     <<"b","a","t","t","e","r","y">>,
     <<"h","o","s","e">>,
     <<"a","x","l","e">>,
     <<"w","h","e","e","l">>,
     <<"l","a","b","o","r">> >>

\* what it may carry of EXCLUDE_KEYWORDS: nothing, one entry, three entries,
\* the rate confirmation phrase (which "rate con" matches as well)
ExclusionMentions ==
  << << >>, <<"z","e","l","l","e">>,
     <<"z","e","l","l","e"," ","p","a","y","r","o","l","l"," ","i","f","t","a">>,
     <<"R","a","t","e"," ","C","o","n","f","i","r","m","a","t","i","o","n">> >>

\* the senders of composed messages: a repair shop, and a load board whose
\* address EXCLUDE_SENDERS lists in lower case
Senders ==
  << <<"s","h","o","p","@","e","x",".","c","o","m">>,
     <<"D","A","T"," ","<","N","o","-","R","e","p","l","y","@","D","A","T",".","c","o","m",">">> >>

\* how a message is composed: one choice per signal
Surfaces ==
  [vin : 1..Len(VinMentions), unit : 1..Len(UnitMentions), terms : 0..MaxTerms,
   excl : 1..Len(ExclusionMentions), pdf : BOOLEAN, inv : BOOLEAN,
   sender : 1..Len(Senders)]

\* the message of a surface, as the arguments scan passes to classify
Render(s) ==
  LET words == <<VinMentions[s.vin], UnitMentions[s.unit]>>
                 \o SubSeq(InclusionWords, 1, s.terms)
                 \o <<ExclusionMentions[s.excl]>>
  IN  [subject |-> IF s.inv THEN <<"F","w","d"," ","I","n","v","o","i","c","e">> ELSE <<"F","w","d">>,
       body |-> JoinSpace(SelectSeq(words, LAMBDA w : w # << >>)),
       sender |-> Senders[s.sender],
       attachment_names |-> IF s.pdf THEN << <<"s","c","a","n",".","P","D","F">> >> ELSE << >>]

\* the messages classify is examined on
Calls == { Render(s) : s \in Surfaces }

\* the decision classify returns for each of them
Decisions ==
  [c \in Calls |-> classify(c.subject, c.body, c.sender, c.attachment_names)]

\* the surfaces that are surface s with one signal raised and the others as
\* they are: a longer part of the VIN, the unit number with a label, one
\* more inclusion term, a PDF attachment, "invoice" in the subject
Raisings(s) ==
  { [s EXCEPT !.vin = v] : v \in { w \in (s.vin + 1)..Len(VinMentions) : s.vin > 1 } }
    \cup { [s EXCEPT !.unit = u] : u \in { w \in {3, 4} : s.unit = 2 } }
    \cup { [s EXCEPT !.terms = n] : n \in { w \in {s.terms + 1} : w <= MaxTerms } }
    \cup { [s EXCEPT !.pdf = TRUE] : w \in { s.pdf } \ {TRUE} }
    \cup { [s EXCEPT !.inv = TRUE] : w \in { s.inv } \ {TRUE} }

\* the signal in which surface t differs from surface s
RaisedSignal(s, t) ==
  IF t.vin # s.vin THEN "vin"
  ELSE IF t.unit # s.unit THEN "unit"
  ELSE IF t.terms # s.terms THEN "terms"
  ELSE IF t.pdf # s.pdf THEN "pdf"
  ELSE "inv"

\* some message has arrived
ClassifierInit ==
  /\ ScanInit
  /\ \E s \in Surfaces : surface = s /\ call = Render(s)
  /\ decision = NoDecision
  /\ raised = "none"

\* self.classifier.classify(email['subject'], email['body'],
\* email['sender'], attachment_names)
Classify ==
  /\ decision = NoDecision
  /\ decision' = Decisions[call]
  /\ UNCHANGED <<surface, call, raised>>
  /\ UNCHANGED scanVars

\* scan counts the classified message: results['total_scanned'] += 1, then
\* results['invoices_found'] += 1 for an accepted message and one of the
\* rejection tallies for a rejected one
CountDecision ==
  /\ decision # NoDecision
  /\ results = NoResults
  /\ LET counted == [results EXCEPT !.total_scanned = @ + 1]
     IN  results' = IF decision.is_mechanic_invoice
                    THEN [counted EXCEPT !.invoices_found = @ + 1]
                    ELSE TallyRejection(counted, decision.reason)
  /\ UNCHANGED <<file, archive, summaries, today, scans, pc, error, processed_ids,
                 messages, i, j, invoice_record, loaded, fileAtStart, decided,
                 fetched, unavailable, saveFailed, stored, faults>>
  /\ UNCHANGED classifierVars

\* the message arrives again, before it is counted, with one signal raised
\* and is classified
Reclassify ==
  /\ decision # NoDecision
  /\ results = NoResults
  /\ \E t \in Raisings(surface) :
       /\ surface' = t
       /\ call' = Render(t)
       /\ decision' = Decisions[Render(t)]
       /\ raised' = RaisedSignal(surface, t)
  /\ UNCHANGED scanVars

ClassifierNext ==
  \/ Classify
  \/ Reclassify
  \/ CountDecision

ClassifierSpec == ClassifierInit /\ [][ClassifierNext]_vars

\* ------------------------------------------------------------------------
\* Properties
\* ------------------------------------------------------------------------

\* the ids for which classify has ever produced a decision
DecidedIds == { m \in MsgIds : decided[m] > 0 }

\* an invocation of main() has ended, by return or by exception
Ended == pc \in {"returned", "raised"}

\* C1: in a scan, a candidate id that is in the ledger loaded for that scan
\* is not fetched, not classified and not archived; passing it only
\* increments the already-processed tally.  So a message processed in an
\* earlier scan whose ledger was saved yields no new decision and no new
\* archive entry when it is listed again.
C1_LoadedIdsAreOnlyTallied ==
  [][ /\ \A m \in loaded :
           /\ fetched'[m] = fetched[m]
           /\ decided'[m] = decided[m]
           /\ { s \in stored' : s.msg = m } = { s \in stored : s.msg = m }
      /\ (pc \in {"loop", "attach"} /\ i <= Len(messages) /\ messages[i] \in loaded) =>
           /\ pc = "loop"
           /\ archive' = archive
           /\ i' # i => results' = [results EXCEPT !.skipped_already_processed = @ + 1]
    ]_vars

\* a scan has passed over a listed message that an earlier scan decided
C1_Witness ==
  /\ pc = "loop"
  /\ results.skipped_already_processed > 0
  /\ \E k \in 1..(i - 1) : messages[k] \in loaded /\ decided[messages[k]] = 1

\* C2: over any sequence of scans, interrupted and restarted ones included,
\* classify produces a decision for each message id at most once.
C2_DecidedAtMostOnce == \A m \in MsgIds : decided[m] <= 1

\* C3: starting from an empty ledger, after every scan invocation the
\* persisted ledger holds exactly the ids ever decided, and is no smaller
\* than before that invocation.
C3_LedgerIsExactlyTheDecided ==
  Ended =>
    /\ PersistedIds(file) = DecidedIds
    /\ Cardinality(PersistedIds(file)) >= Cardinality(PersistedIds(fileAtStart))

\* C4: within one scan the in-memory set of processed ids only grows, and
\* after every outcome of a scan (completed, aborted, failed while saving)
\* the persisted ledger contains the ledger persisted before.
C4_LedgerNeverLosesEntries ==
  [][ /\ pc' # "idle" => processed_ids \subseteq processed_ids'
      /\ PersistedIds(file) \subseteq PersistedIds(file')
    ]_vars

\* C5: when the detail fetch of a message fails, the scan produces no
\* decision for it, leaves it out of the ledger and goes on with the next
\* candidate; an id whose latest fetch failed is in neither the in-memory nor
\* the persisted ledger, so a later scan that lists it fetches it again.
C5_FailedFetchIsRetried ==
  [][ /\ \A m \in MsgIds :
           (fetched'[m] # fetched[m] /\ decided'[m] = decided[m]) =>
              /\ m = messages[i]
              /\ processed_ids' = processed_ids
              /\ file' = file
              /\ pc' = "loop" /\ messages' = messages /\ i' = i + 1
      /\ \A m \in unavailable' :
           m \notin processed_ids' /\ m \notin PersistedIds(file')
    ]_vars

\* the second scan has classified a message whose fetch failed in the first
C5_Witness ==
  /\ scans = 2
  /\ \E m \in processed_ids \ loaded : fetched[m] = 2 /\ decided[m] = 1

\* C6: an I/O error while writing one attachment is confined to that
\* attachment: it never ends the scan.
C6_WriteErrorIsConfined ==
  ~(pc = "raised" /\ error = "OSError: archive write")

\* C7: when persisting the ledger fails, scan does not go on to write the
\* summary and return: the invocation ends with the error.
C7_SaveFailureIsRaised ==
  saveFailed => (pc = "raised" /\ error = "OSError: ledger write")

\* persisting the ledger has failed after a scan that decided a message
C7_Witness ==
  /\ saveFailed
  /\ pc = "raised"
  /\ processed_ids # loaded

\* C8: when the lister cannot be reached, the scan ends with the error
\* raised and the persisted ledger is exactly as it was before the scan.
C8_ListFailureLeavesLedger ==
  error = "HttpError: list" => (pc = "raised" /\ file = fileAtStart)

\* the lister has failed in a scan that began with a non-empty ledger
C8_Witness ==
  /\ error = "HttpError: list"
  /\ PersistedIds(file) # {}

\* the scan of this invocation is under way or has returned
Scanning == pc \in {"ready", "loop", "attach", "summary", "returned"}

C10_OneFilePerAttachment ==
  \A s1 \in stored : \A s2 \in stored :
     (s1.msg = s2.msg /\ s1.att = s2.att) => s1.path = s2.path

\* C11: attachments of different messages, or with different bytes, never
\* have the same archive path: when download_attachment finds a complete
\* file at the path of the attachment in hand, that file holds the same
\* bytes and was written for the same message.
C11_NoPathCollision ==
  (InAttachments /\ Eligible(CurrentAttachment)) =>
     LET email == Mailbox[messages[i]]
         path == ArchivePath(CurrentAttachment, email.date, email.subject, DateOfDay(today))
     IN  \A f \in archive :
            (f.path = path /\ f.data # "incomplete") =>
               /\ f.data = CurrentAttachment.data
               /\ \A s \in stored : s.path = path => s.msg = messages[i]

\* C12: when a scan has stored attachments and ended before the ledger was
\* persisted, the next scan processes the messages again without adding a
\* file: no file is written for an attachment of a message for which a
\* file was written before.
C12_ReprocessingAddsNoFile ==
  [][ \A s \in stored' \ stored :
         ~\E t \in stored : t.msg = s.msg /\ t.att = s.att ]_vars

\* ------------------------------------------------------------------------
\* Properties of the classifier (under ClassifierSpec)
\* ------------------------------------------------------------------------

\* classify has returned for the message under examination
Classified == decision # NoDecision

\* the text classify examines, lower-cased
TextLower == Lower(FullText(call.subject, call.body, call.attachment_names))

\* the message text contains the term, case-insensitively
Mentions(term) == Contains(TextLower, Lower(term))

\* the vocabularies as the claims speak of them: sets of distinct terms in
\* lower case
ExcludedSenderTerms == { Lower(EXCLUDE_SENDERS[k]) : k \in 1..Len(EXCLUDE_SENDERS) }

ExclusionTerms == { Lower(EXCLUDE_KEYWORDS[k]) : k \in 1..Len(EXCLUDE_KEYWORDS) }

InclusionTerms == { Lower(MECHANIC_KEYWORDS[k]) : k \in 1..Len(MECHANIC_KEYWORDS) }

IdentifierTerms == { Lower(SEARCH_TERMS[k]) : k \in 1..Len(SEARCH_TERMS) }

\* the exclusion terms that contain both "rate" and "confirm"
RateConfirmationTerms ==
  { t \in ExclusionTerms : Contains(t, <<"r","a","t","e">>) /\ Contains(t, <<"c","o","n","f","i","r","m">>) }

\* the terms of a vocabulary that the message text contains
MentionedOf(terms) ==
  LET text == TextLower
  IN  { t \in terms : Contains(text, t) }

\* the sender contains an excluded-sender substring, case-insensitively
SenderIsExcluded ==
  LET sender == Lower(call.sender)
  IN  \E t \in ExcludedSenderTerms : Contains(sender, t)

\* the text contains an exclusion term that contains "rate" and "confirm"
MentionsRateConfirmation == MentionedOf(RateConfirmationTerms) # {}

\* the number of exclusion terms, and of distinct inclusion terms, the text
\* contains
ExclusionCount == Cardinality(MentionedOf(ExclusionTerms))

InclusionCount == Cardinality(MentionedOf(InclusionTerms))

\* the text contains some identifier variant
MentionsIdentifier == MentionedOf(IdentifierTerms) # {}

Rejected == ~decision.is_mechanic_invoice

\* the rationale is the exclusion step's / the identifier step's
ExcludedRationale == decision.reason[1] = "EXCLUDED: "

NoIdentifierRationale ==
  decision.reason = <<"No truck identifier found (574, VIN, etc.)">>

SubjectHasInvoice == Contains(Lower(call.subject), <<"i","n","v","o","i","c","e">>)

HasPdfName ==
  \E k \in 1..Len(call.attachment_names) :
     EndsWith(Lower(call.attachment_names[k]), <<".","p","d","f">>)

\* C13: a message whose sender contains an excluded-sender substring, in
\* any letter case, is rejected whatever its subject, body and attachment
\* names contain.
C13_ExcludedSenderRejects ==
  (Classified /\ SenderIsExcluded) => Rejected

\* a message from an excluded sender with the full VIN, four inclusion
\* terms, a PDF and "invoice" in the subject has been rejected
C13_Witness ==
  /\ Classified
  /\ SenderIsExcluded
  /\ Mentions(FULL_VIN)
  /\ InclusionCount >= 4
  /\ HasPdfName
  /\ SubjectHasInvoice
  /\ Rejected

\* C14: a message whose text contains an exclusion term that itself
\* contains "rate" and "confirm" is rejected, however many inclusion terms
\* and identifiers it matches.
C14_RateConfirmationRejects ==
  (Classified /\ MentionsRateConfirmation) => Rejected

\* a rate confirmation from a sender that is not excluded, with an
\* identifier, another exclusion term and at least as many inclusion as
\* exclusion terms, has been rejected
C14_Witness ==
  /\ Classified
  /\ ~SenderIsExcluded
  /\ MentionsRateConfirmation
  /\ MentionsIdentifier
  /\ ExclusionCount >= 2
  /\ InclusionCount >= ExclusionCount
  /\ Rejected

\* the exclusion step rejects: by sender, by rate confirmation, or by more
\* exclusion than inclusion terms
ExclusionStepRejects ==
  \/ SenderIsExcluded
  \/ MentionsRateConfirmation
  \/ (ExclusionCount >= 1 /\ ExclusionCount > InclusionCount)

\* C15 as stated: a message whose text contains no identifier variant is
\* rejected with the "no identifier found" rationale and an empty list of
\* matched identifiers, whichever inclusion and exclusion terms it contains.
C15_NoIdentifierRationaleAlways ==
  (Classified /\ ~MentionsIdentifier) =>
     /\ Rejected
     /\ NoIdentifierRationale
     /\ decision.found_identifiers = << >>

\* C15 as amended: a message whose text contains no identifier variant is
\* rejected with an empty list of matched identifiers, whichever inclusion
\* terms it contains; the rationale is "no identifier found" unless the
\* exclusion step, which comes first, rejects the message, and then it is
\* the exclusion rationale.
C15_NoIdentifierRejects ==
  (Classified /\ ~MentionsIdentifier) =>
     /\ Rejected
     /\ decision.found_identifiers = << >>
     /\ IF ExclusionStepRejects THEN ExcludedRationale ELSE NoIdentifierRationale

\* a message without identifier, with inclusion terms and an exclusion
\* term, has been rejected for its missing identifier
C15_Witness ==
  /\ Classified
  /\ ~MentionsIdentifier
  /\ InclusionCount >= 2
  /\ ExclusionCount >= 1
  /\ HasPdfName
  /\ NoIdentifierRationale

\* C16: for a sender that is not excluded and a text without rate
\* confirmation term, the exclusion step rejects exactly when some
\* exclusion term matches and more exclusion than inclusion terms match.
C16_ExclusionByCount ==
  (Classified /\ ~SenderIsExcluded /\ ~MentionsRateConfirmation) =>
     (ExcludedRationale <=> (ExclusionCount >= 1 /\ ExclusionCount > InclusionCount))

\* a message with as many exclusion as inclusion terms has passed the
\* exclusion step
C16_Witness ==
  /\ Classified
  /\ ~SenderIsExcluded
  /\ ~MentionsRateConfirmation
  /\ ExclusionCount >= 1
  /\ ExclusionCount = InclusionCount
  /\ ~ExcludedRationale

\* the message has passed the exclusion, identifier and inclusion steps
ScoringReached ==
  /\ Classified
  /\ ~ExcludedRationale
  /\ decision.found_identifiers # << >>
  /\ decision.found_keywords # << >>

\* the confidence classify computed, as its rationale reports it
ReportedConfidence == decision.reason[2]

\* the contributions as the claims state them (hundredths)
StatedV ==
  IF Mentions(FULL_VIN) THEN 40
  ELSE IF Mentions(LastN(FULL_VIN, 8)) THEN 35
  ELSE IF Mentions(LastN(FULL_VIN, 6)) THEN 25
  ELSE IF Mentions(LastN(FULL_VIN, 4)) THEN 15
  ELSE 0

StatedK == IF InclusionCount >= 4 THEN 40 ELSE 10 * InclusionCount

StatedP == IF HasPdfName THEN 10 ELSE 0

StatedS == IF SubjectHasInvoice THEN 15 ELSE 0

\* C17: for a message that reaches scoring, the confidence is
\* min(1, V + U + K + P + S) for a primary-identifier contribution U of 0,
\* 0.10 or 0.20, and the message is accepted exactly when that value is at
\* least 0.30; the 4-character suffix with two inclusion terms gives 0.35
\* and is accepted; the full VIN with "Unit 574", a PDF and "invoice" in
\* the subject is accepted with at least 0.85.
C17_ConfidenceFormula ==
  ScoringReached =>
     /\ \E U \in {0, 10, 20} :
          LET sum == StatedV + U + StatedK + StatedP + StatedS
              value == IF sum > 100 THEN 100 ELSE sum
          IN  /\ ReportedConfidence = value
              /\ decision.is_mechanic_invoice <=> value >= 30
              /\ decision.is_mechanic_invoice => decision.confidence = value
     /\ (StatedV = 15 /\ InclusionCount = 2 /\ ~Mentions(UNIT_NUMBER)
           /\ ~HasPdfName /\ ~SubjectHasInvoice) =>
          (decision.is_mechanic_invoice /\ decision.confidence = 35)
     /\ (StatedV = 40 /\ Mentions(<<"U","n","i","t"," ">> \o UNIT_NUMBER)
           /\ HasPdfName /\ SubjectHasInvoice) =>
          (decision.is_mechanic_invoice /\ decision.confidence >= 85)

\* the 4-character suffix with two inclusion terms and nothing else has
\* been accepted at 0.35
C17_Witness ==
  /\ ScoringReached
  /\ StatedV = 15
  /\ InclusionCount = 2
  /\ ~Mentions(UNIT_NUMBER)
  /\ ~HasPdfName
  /\ ~SubjectHasInvoice
  /\ decision.is_mechanic_invoice
  /\ decision.confidence = 35

\* the labeled primary-identifier phrases: "Unit 574", "Unit#574",
\* "Unit-574", "Truck 574", "Truck#574", "Unit: 574"
LabeledPhrases ==
  { <<"U","n","i","t"," ">> \o UNIT_NUMBER, <<"U","n","i","t","#">> \o UNIT_NUMBER, <<"U","n","i","t","-">> \o UNIT_NUMBER,
    <<"T","r","u","c","k"," ">> \o UNIT_NUMBER, <<"T","r","u","c","k","#">> \o UNIT_NUMBER, <<"U","n","i","t",":"," ">> \o UNIT_NUMBER }

MentionsLabeledUnit == \E phrase \in LabeledPhrases : Mentions(phrase)

\* "574" stands in the text as a token of its own: no letter, digit or
\* underscore next to it
MentionsUnitToken ==
  LET text == TextLower
      n == Len(UNIT_NUMBER)
  IN  \E k \in 1..(Len(text) - n + 1) :
         /\ SubSeq(text, k, k + n - 1) = UNIT_NUMBER
         /\ (k = 1 \/ text[k - 1] \notin WordChars)
         /\ (k + n > Len(text) \/ text[k + n] \notin WordChars)

StatedU ==
  IF MentionsLabeledUnit THEN 20
  ELSE IF MentionsUnitToken THEN 10
  ELSE 0

\* C18: in scoring, the primary-identifier contribution is 0.20 when a
\* labeled phrase is present, 0.10 when none is and "574" stands as a token
\* of its own, and 0 when "574" only occurs inside a longer run.
C18_UnitContribution ==
  ScoringReached =>
     LET sum == StatedV + StatedU + StatedK + StatedP + StatedS
     IN  ReportedConfidence = IF sum > 100 THEN 100 ELSE sum

\* C19: the confidence of the returned decision never falls when one signal
\* is raised and the others are held: a longer identifier match, one more
\* inclusion term, a PDF-named attachment, "invoice" in the subject.
C19_ConfidenceIsMonotone ==
  [][ (Classified /\ surface' \in Raisings(surface)) =>
         decision'.confidence >= decision.confidence ]_vars

\* an accepted message has been classified again with a longer part of the
\* VIN and accepted with a confidence below the cap
C19_Witness ==
  /\ raised = "vin"
  /\ decision.is_mechanic_invoice
  /\ decision.confidence < 100

\* C21: an invocation of scan that returns normally has written one scan
\* summary in that invocation, an empty candidate list included, and an
\* invocation that ends with the ledger of this pass persisted has written
\* its summary too: ledger and summary are persisted together.
C21_SummaryWithLedger ==
  [][ /\ (pc # "returned" /\ pc' = "returned") => summaries' = summaries + 1
      /\ (pc = "summary" /\ Ended') => summaries' = summaries + 1 ]_vars

\* scan has counted the message under examination
Counted == results.total_scanned = 1

\* the excluded, the no-identifier and the not-relevant tally
RejectionTallies ==
  <<results.skipped_rate_confirmations, results.skipped_no_identifier,
    results.skipped_not_mechanic>>

\* C22: a rejected message increments exactly one of the three rejection
\* tallies and leaves the other two as they are: the excluded tally when the
\* exclusion step rejects (sender, rate confirmation, exclusion count), the
\* no-identifier tally when no identifier is found, the not-relevant tally
\* otherwise (no inclusion term, confidence below the threshold).  An
\* accepted message changes none of the three.
C22_OneTallyPerRejection ==
  Counted =>
     RejectionTallies =
        IF ~Rejected THEN <<0, 0, 0>>
        ELSE IF ExclusionStepRejects THEN <<1, 0, 0>>
        ELSE IF ~MentionsIdentifier THEN <<0, 1, 0>>
        ELSE <<0, 0, 1>>

\* a message with an identifier and too few signals has been counted as not
\* relevant
C22_Witness ==
  /\ Counted
  /\ Rejected
  /\ MentionsIdentifier
  /\ InclusionCount >= 1
  /\ ~ExclusionStepRejects
  /\ RejectionTallies = <<0, 0, 1>>

\* the eligibility filter as stated: the media type is PDF or an image, or
\* the file name ends in .pdf, .png, .jpg, .jpeg or .tiff
PassesFilter(attachment) ==
  \/ StartsWith(Lower(attachment.mimeType), <<"a","p","p","l","i","c","a","t","i","o","n","/","p","d","f">>)
  \/ StartsWith(Lower(attachment.mimeType), <<"i","m","a","g","e","/">>)
  \/ \E ext \in { <<".","p","d","f">>, <<".","p","n","g">>, <<".","j","p","g">>,
                  <<".","j","p","e","g">>, <<".","t","i","f","f">> } :
        EndsWith(Lower(attachment.filename), ext)

\* classify has accepted message m in some scan
AcceptedByClassify(m) == decided[m] > 0 /\ Classification(m).is_mechanic_invoice

\* a step in which download_attachment is called (the bytes of an
\* attachment are fetched) or the archive changes
FetchesOrWrites ==
  \/ StoreAttachment
  \/ StoreFails
  \/ AttachmentUnavailable
  \/ archive' # archive
  \/ stored' # stored

\* C23: the bytes of an attachment are fetched, and a file is written to the
\* archive, only for an attachment that passes the eligibility filter, of a
\* message that classify accepted; the file written is at that attachment's
\* path.  A rejected message and an ineligible attachment cause neither a
\* fetch nor a write.
C23_OnlyAcceptedAndEligible ==
  [][ FetchesOrWrites =>
        /\ pc = "attach"
        /\ AcceptedByClassify(messages[i])
        /\ PassesFilter(CurrentAttachment)
        /\ \A f \in archive' \ archive :
              f.path = ArchivePath(CurrentAttachment, Mailbox[messages[i]].date,
                                   Mailbox[messages[i]].subject, DateOfDay(today)) ]_vars

\* the rate confirmation was rejected and nothing of it is in the archive;
\* of the reminder, the text file was passed over and the PDF, eligible by
\* its file name only, was written; the image of the first invoice, eligible
\* by its media type only, was written
C23_Witness ==
  /\ decided["m2"] > 0
  /\ "m3" \in processed_ids
  /\ { s.att : s \in { t \in stored : t.msg = "m3" } } = {2}
  /\ \E s \in stored : s.msg = "m1" /\ s.att = 2
  /\ \A s \in stored : s.msg # "m2"

\* the Date header is not of the shape download_attachment parses
Unparseable(email_date) == email_date.fmt # "rfc"

\* the invoice record of the message archived last: the one in hand, or
\* the one appended to the results when its message was finished
LatestRecord ==
  IF invoice_record # NoRecord THEN invoice_record
  ELSE results.invoices[Len(results.invoices)]

\* C24: when the Date header of a message cannot be parsed, archiving an
\* attachment of it does not fail for that: download_attachment returns a
\* path whose year-month folder and date stamp are those of the current
\* time, a file is at that path, the scan goes on, and the message is
\* marked processed when its attachments are done.
C24_UnparsedDateFallsBackToNow ==
  [][ (pc = "attach" /\ Unparseable(Mailbox[messages[i]].date) /\ StoreAttachment) =>
        LET now == DateOfDay(today)
            paths == LatestRecord'.attachments_downloaded
            path == paths[Len(paths)]
        IN  /\ Len(paths) = Len(invoice_record.attachments_downloaded) + 1
            /\ path.folder = MonthFolder(now)
            /\ StartsWith(path.name, DateStamp(now) \o <<"_">>)
            /\ PathExists(archive', path)
            /\ pc' \in {"attach", "loop"}
            /\ error' = error
            /\ (j = Len(Mailbox[messages[i]].attachments)
                  => messages[i] \in processed_ids') ]_vars

\* the reminder, whose Date header has no weekday and states 2024-01-31, was
\* archived on the next day under 2024-02 and is marked processed
C24_Witness ==
  /\ "m3" \in processed_ids
  /\ \E s \in stored :
        /\ s.msg = "m3"
        /\ Unparseable(Mailbox[s.msg].date)
        /\ s.path.folder = MonthFolder(DateOfDay(1))
        /\ s.path.folder # MonthFolder(Mailbox[s.msg].date.at)

\* C25: of every decision classify returns: the message is accepted exactly
\* when the confidence field is at least 0.30; the confidence field is
\* within [0, 1] and is 0 for every rejected decision, a rejection below
\* the threshold included; an accepted decision lists at least one matched
\* identifier and at least one matched keyword; a decision rejected at the
\* exclusion step lists neither.  (Confidence in hundredths.)
C25_DecisionIsWellFormed ==
  Classified =>
     /\ decision.is_mechanic_invoice <=> decision.confidence >= 30
     /\ decision.confidence >= 0
     /\ decision.confidence <= 100
     /\ Rejected => decision.confidence = 0
     /\ ~Rejected => (decision.found_identifiers # << >> /\ decision.found_keywords # << >>)
     /\ (Rejected /\ ExclusionStepRejects) =>
           (decision.found_identifiers = << >> /\ decision.found_keywords = << >>)

\* a message with every signal, whose contributions add up to more than 1,
\* has been accepted with confidence 1
C25_Witness ==
  /\ Classified
  /\ ~Rejected
  /\ decision.confidence = 100
  /\ Mentions(FULL_VIN)
  /\ MentionsLabeledUnit
  /\ InclusionCount >= 4
  /\ HasPdfName
  /\ SubjectHasInvoice

\* the candidates of this scan handled so far, the one in progress included
Handled ==
  IF pc = "attach" THEN i ELSE IF i = 0 THEN 0 ELSE i - 1

\* the candidates of this scan passed over because their detail fetch
\* failed: passed, and neither in the ledger before nor added to it
FetchFailures ==
  Cardinality({ k \in 1..(IF i = 0 THEN 0 ELSE i - 1) : messages[k] \notin processed_ids })

\* the number of stored paths the invoice records list
RECURSIVE PathCount(_)
PathCount(records) ==
  IF records = << >> THEN 0
  ELSE Len(Head(records).attachments_downloaded) + PathCount(Tail(records))

\* the equations between the counters, for the invoice records `records`
CountersConsistent(records) ==
  /\ Handled = results.skipped_already_processed + results.total_scanned
  /\ results.total_scanned =
        results.invoices_found + results.skipped_rate_confirmations
          + results.skipped_no_identifier + results.skipped_not_mechanic
          + FetchFailures
  /\ Len(records) = results.invoices_found
  /\ results.attachments_downloaded = PathCount(records)

\* C26 as stated: at every point of a scan, candidates handled = skips +
\* total scanned; total scanned = invoices found + the three rejection
\* tallies + failed fetches; the number of invoice records in the results
\* equals invoices found; the attachments-archived count equals the number
\* of stored paths the invoice records of the results list.
C26_CountersConsistentAlways ==
  Scanning => CountersConsistent(results.invoices)

\* the invoice records, the one under construction for the accepted message
\* whose attachments are being archived included
RecordsSoFar ==
  IF pc = "attach" THEN Append(results.invoices, invoice_record)
  ELSE results.invoices

\* C26, amended: at every point of a scan the equations hold when the
\* invoice record under construction, which scan appends to the results
\* only after the attachments of its message, is counted with the invoice
\* records.
C26_CountersConsistent ==
  Scanning => CountersConsistent(RecordsSoFar)

\* the first invoice was archived with two files, the rate confirmation was
\* skipped as already processed, and the attachments of the reminder are
\* being archived
C26_Witness ==
  /\ pc = "attach"
  /\ messages = <<"m1", "m2", "m3">>
  /\ i = 3
  /\ results.skipped_already_processed = 1
  /\ results.total_scanned = 2
  /\ results.invoices_found = 2
  /\ Len(results.invoices) = 1
  /\ results.attachments_downloaded = 2
====
